---- MODULE Spec2Model ----
(***************************************************************************)
(* TRESSE online store: cart -> payment intent -> order commit pipeline.   *)
(*                                                                         *)
(* The store runs on PostgreSQL (tresse/settings.py:120-130) in autocommit *)
(* mode, READ COMMITTED.  Every request is handled by its own worker; a    *)
(* worker takes one step per database statement or processor call.  Writes *)
(* made inside `transaction.atomic()` become visible at COMMIT; row locks  *)
(* (SELECT ... FOR UPDATE, UPDATE, DELETE) are held until the transaction  *)
(* ends.                                                                   *)
(*                                                                         *)
(* Decimal amounts are integers counting thousandths of a dollar, so that  *)
(* quantize(..., ROUND_HALF_UP) is a real rounding.  A catalog price has   *)
(* two decimal places (products/models.py:108): a multiple of 10.          *)
(***************************************************************************)
EXTENDS Integers, Sequences, FiniteSets, TLC

\* ---------------------------------------------------------------- bounds
NumUsers   == 2
NumEntries == 2
MaxStock   == 2
NumReq     == 2
NumIntents == 2
MaxOrders  == 2
MaxNow     == 26
NumSuffix  == 2
MaxRefundCalls == 2

Users    == 1..NumUsers
Entries  == 1..NumEntries
Reqs     == 1..NumReq
PI       == 1..NumIntents
Prices   == {1500, 2000}
Attempts == {"a1", "a2"}
Quantities == 0..MaxStock

\* Size.name values; the sizes are named in the order of the entries at first
Names    == {"S", "M", "L"}
FirstNames == [e \in Entries |-> IF e = 1 THEN "S" ELSE IF e = 2 THEN "M" ELSE "L"]

NoLock   == 0
NoIntent == [status |-> "none"]

\* timedelta(hours=24)
CancelWindowHours == 24
\* for _ in range(7)
MaxTries == 7
\* the 6 characters drawn by _gen_public_id, as one draw from a small alphabet
Suffixes == 1..NumSuffix
\* public_id is null=True: the value of an Order that was given none
NoPublicId == <<>>
NoRefund == [calls |-> 0, done |-> FALSE]

VARIABLES
  stock,      \* ProductSize.quantity per inventory entry
  price,      \* Product.price (one product, one size per entry)
  cartItems,  \* CartItem.quantity per (user's cart, entry), 0 when there is no row
  orders,     \* Order rows in id order, each with its OrderItem rows
  intents,    \* the payment processor's PaymentIntent objects
  lockPS,     \* holder of the row lock of each ProductSize row
  lockCI,     \* holder of the row lock of each CartItem row
  req,        \* the request each worker is handling, with its local variables
  added,      \* per cart line: the quantity the completed cart operations ask for
  last,       \* the last response sent
  now,        \* timezone.now(), in hours
  refunds,    \* per payment reference: the refund calls made and whether one succeeded
  mail,       \* the notifications triggered, as (kind, order id)
  sizeName    \* Size.name of the size of each inventory entry

vars == <<stock, price, cartItems, orders, intents, lockPS, lockCI, req, added, last,
          now, refunds, mail, sizeName>>

\* ---------------------------------------------------------------- pure helpers
RECURSIVE SumSeq(_)
SumSeq(s) == IF s = <<>> THEN 0 ELSE Head(s) + SumSeq(Tail(s))

RECURSIVE SeqsOf(_)
\* every ordering of the elements of a finite set
SeqsOf(S) ==
  IF S = {} THEN {<<>>}
  ELSE UNION {{<<x>> \o t : t \in SeqsOf(S \ {x})} : x \in S}

\* (amount * Decimal("100")).quantize(Decimal("1"), rounding=ROUND_HALF_UP)
ToCents(amount) ==
  IF amount >= 0 THEN (amount + 5) \div 10 ELSE 0 - ((5 - amount) \div 10)

\* f"{ci.product_size_id}:{ci.quantity}"
Part(ci) == <<ci.ps, ci.quantity>>

\* Python's order on the strings "id:qty": with one-digit ids and quantities it
\* is the order on the pairs.
PartLess(a, b) == a[1] < b[1] \/ (a[1] = b[1] /\ a[2] < b[2])

RECURSIVE Insert(_, _)
Insert(x, s) ==
  IF s = <<>> THEN <<x>>
  ELSE IF PartLess(Head(s), x) THEN <<Head(s)>> \o Insert(x, Tail(s))
  ELSE <<x>> \o s

RECURSIVE Sorted(_)
Sorted(s) == IF s = <<>> THEN <<>> ELSE Insert(Head(s), Sorted(Tail(s)))

\* hashlib.sha256(raw).hexdigest()[:24], taken to be free of collisions
Sha256Prefix(raw) == <<"sha256", raw>>

BuildCartSignature_Unsorted(items) ==
  Sha256Prefix([k \in 1..Len(items) |-> Part(items[k])])

BuildCartSignature(items) ==
  Sha256Prefix(Sorted([k \in 1..Len(items) |-> Part(items[k])]))

\* f"pi_u{user.id}_c{cart.id}_a{amount_cents}_{cart_sig}_att{attempt_id}"
IdempotencyKey(u, c, amountCents, cartSig, att) ==
  <<"pi_u", u, "_c", c, "_a", amountCents, "_", cartSig, "_att", att>>

LineTotal(ci) == ci.price * ci.quantity
CartTotal(items) == SumSeq([k \in 1..Len(items) |-> LineTotal(items[k])])

\* ---------------------------------------------------------------- database helpers
\* Cart.objects.get_or_create(user=request.user): every user's cart exists
\* from the start; carts were created in the reverse order of the users
CartIdOf(u) == NumUsers + 1 - u

\* the rows of CartItem.objects.filter(cart=cart) joined with product_size and
\* product, in the order the database returns them (the queryset has no order_by)
LineOf(u, e) ==
  [ps |-> e, quantity |-> cartItems[u][e], psq |-> stock[e], price |-> price,
   size |-> sizeName[e]]
CartEntries(u) == {e \in Entries : cartItems[u][e] > 0}
CartSnapshots(u) ==
  {[k \in 1..Len(s) |-> LineOf(u, s[k])] : s \in SeqsOf(CartEntries(u))}

ForUpdate_None(r) == NoLock

\* select_for_update(): the row lock is taken for the worker
ForUpdate(r) == r

ReleasePS(r) == [e \in Entries |-> IF lockPS[e] = r THEN NoLock ELSE lockPS[e]]
ReleaseCI(r) ==
  [u \in Users |-> [e \in Entries |-> IF lockCI[u][e] = r THEN NoLock ELSE lockCI[u][e]]]

Free(l, r) == l = NoLock \/ l = r

\* PositiveIntegerField: CHECK (quantity >= 0)
PositiveInteger(v) == v >= 0

\* ---------------------------------------------------------------- workers
Idle ==
  [op |-> "idle", pc |-> "idle", user |-> 0, e |-> 0, q |-> 0, pi |-> 0,
   psq |-> 0, cur |-> 0, snap |-> <<>>, w |-> <<>>, total |-> 0, att |-> "",
   t0 |-> 0, order |-> 0, public_id |-> NoPublicId, created_at |-> 0]

NoResp ==
  [op |-> "none", user |-> 0, resp |-> "none", order |-> 0, pi |-> 0,
   amount |-> 0, key |-> <<>>, lines |-> {}, att |-> "",
   secret |-> "", signed |-> FALSE, event |-> "", e |-> 0, listing |-> {},
   called |-> 0]

\* the response to a request of user u; the fields not named keep their defaults
Respond(op, u, resp, fields) ==
  [k \in DOMAIN NoResp |->
     IF k = "op" THEN op
     ELSE IF k = "user" THEN u
     ELSE IF k = "resp" THEN resp
     ELSE IF k \in DOMAIN fields THEN fields[k]
     ELSE NoResp[k]]

Start(r, op, pc, fields) ==
  [req EXCEPT ![r] = [k \in DOMAIN Idle |->
     IF k = "op" THEN op
     ELSE IF k = "pc" THEN pc
     ELSE IF k \in DOMAIN fields THEN fields[k]
     ELSE Idle[k]]]

Finish(r) ==
  /\ req' = [req EXCEPT ![r] = Idle]
  /\ lockPS' = ReleasePS(r)
  /\ lockCI' = ReleaseCI(r)

\* idle workers are interchangeable: a request goes to the first idle one
FirstIdle(r) == req[r].op = "idle" /\ \A r2 \in Reqs : r2 < r => req[r2].op # "idle"

Init ==
  /\ stock = [e \in Entries |-> MaxStock]
  /\ price = CHOOSE v \in Prices : \A w \in Prices : v <= w
  /\ cartItems = [u \in Users |-> [e \in Entries |-> 0]]
  /\ orders = <<>>
  /\ intents = [p \in PI |-> NoIntent]
  /\ lockPS = [e \in Entries |-> NoLock]
  /\ lockCI = [u \in Users |-> [e \in Entries |-> NoLock]]
  /\ req = [r \in Reqs |-> Idle]
  /\ added = [u \in Users |-> [e \in Entries |-> 0]]
  /\ last = NoResp
  /\ now = 0
  /\ refunds = [p \in PI |-> NoRefund]
  /\ mail = {}
  /\ sizeName = FirstNames

\* ---------------------------------------------------------------- addItem
\* CartItemAPIView.post: the validation of the request
CartItemPost_Begin(r, US, ES) ==
  /\ FirstIdle(r)
  /\ \E u \in US, e \in ES, q \in Quantities :
       IF q < 1
       THEN /\ last' = Respond("addItem", u, "QuantityInvalid", <<>>)
            /\ req' = req
       ELSE /\ req' = Start(r, "addItem", "lock_ps", [user |-> u, e |-> e, q |-> q])
            /\ last' = last
  /\ UNCHANGED <<stock, price, cartItems, orders, intents, lockPS, lockCI, added, now, refunds, mail, sizeName>>

\* ps = ProductSize.objects.select_for_update().get(pk=product_size.pk)
CartItemPost_LockPS(r) ==
  /\ req[r].op = "addItem" /\ req[r].pc = "lock_ps"
  /\ Free(lockPS[req[r].e], r)
  /\ lockPS' = [lockPS EXCEPT ![req[r].e] = ForUpdate(r)]
  /\ req' = [req EXCEPT ![r].pc = "lock_item", ![r].psq = stock[req[r].e]]
  /\ UNCHANGED <<stock, price, cartItems, orders, intents, lockCI, added, last, now, refunds, mail, sizeName>>

\* item = CartItem.objects.filter(cart=cart, product_size=ps).select_for_update().first()
CartItemPost_LockItem(r) ==
  LET u == req[r].user
      e == req[r].e
  IN /\ req[r].op = "addItem" /\ req[r].pc = "lock_item"
     /\ Free(lockCI[u][e], r)
     /\ lockCI' = IF cartItems[u][e] > 0
                  THEN [lockCI EXCEPT ![u][e] = ForUpdate(r)]
                  ELSE lockCI
     /\ req' = [req EXCEPT ![r].pc = "check", ![r].cur = cartItems[u][e]]
     /\ UNCHANGED <<stock, price, cartItems, orders, intents, lockPS, added, last, now, refunds, mail, sizeName>>

NotEnoughStock_Off(new_qty, available) == new_qty >= available

\* `if new_qty > ps.quantity`
NotEnoughStock(new_qty, available) == new_qty > available

\* the stock check, the upsert and the end of the atomic block
CartItemPost_Finish(r) ==
  LET u == req[r].user
      e == req[r].e
      q == req[r].q
      new_qty == req[r].cur + q
  IN /\ req[r].op = "addItem" /\ req[r].pc = "check"
     /\ IF NotEnoughStock(new_qty, req[r].psq)
        THEN /\ last' = Respond("addItem", u, "InsufficientStock", <<>>)
             /\ UNCHANGED <<cartItems, added>>
        ELSE IF req[r].cur = 0 /\ cartItems[u][e] > 0
        THEN \* INSERT refused by uniq_cart_product_size
             /\ last' = Respond("addItem", u, "IntegrityError", <<>>)
             /\ UNCHANGED <<cartItems, added>>
        ELSE /\ cartItems' = [cartItems EXCEPT ![u][e] =
                                IF req[r].cur = 0 THEN q
                                ELSE IF @ > 0 THEN new_qty ELSE 0]
             /\ added' = [added EXCEPT ![u][e] = @ + q]
             /\ last' = Respond("addItem", u, "Created", <<>>)
     /\ Finish(r)
     /\ UNCHANGED <<stock, price, orders, intents, now, refunds, mail, sizeName>>

\* ---------------------------------------------------------------- updateItem
\* CartItemAPIView.put: get_object_or_404(CartItem.objects.select_for_update()...)
\* and the validation of the new quantity
CartItemPut_LockItem(r, US, ES) ==
  /\ FirstIdle(r)
  /\ \E u \in US, e \in ES, q \in Quantities :
       IF cartItems[u][e] = 0
       THEN /\ last' = Respond("updateItem", u, "NotFound", <<>>)
            /\ UNCHANGED <<req, lockCI>>
       ELSE /\ Free(lockCI[u][e], r)
            /\ IF q < 1
               THEN /\ last' = Respond("updateItem", u, "QuantityInvalid", <<>>)
                    /\ UNCHANGED <<req, lockCI>>
               ELSE /\ req' = Start(r, "updateItem", "lock_ps",
                                    [user |-> u, e |-> e, q |-> q, cur |-> cartItems[u][e]])
                    /\ lockCI' = [lockCI EXCEPT ![u][e] = ForUpdate(r)]
                    /\ last' = last
  /\ UNCHANGED <<stock, price, cartItems, orders, intents, lockPS, added, now, refunds, mail, sizeName>>

PutQuantity_Added(current_qty, q) == current_qty + q

\* new_qty = serializer.validated_data.get("quantity", item.quantity): the
\* quantity asked for, whatever the line holds
PutQuantity(current_qty, q) == q

\* ps = ProductSize.objects.select_for_update().get(...), the stock check, the
\* save and the end of the atomic block
CartItemPut_Finish(r) ==
  LET u == req[r].user
      e == req[r].e
      q == req[r].q
      new_qty == PutQuantity(req[r].cur, q)
  IN /\ req[r].op = "updateItem" /\ req[r].pc = "lock_ps"
     /\ Free(lockPS[e], r)
     /\ IF NotEnoughStock(new_qty, stock[e])
        THEN /\ last' = Respond("updateItem", u, "InsufficientStock", <<>>)
             /\ UNCHANGED <<cartItems, added>>
        ELSE /\ cartItems' = [cartItems EXCEPT ![u][e] = IF @ > 0 THEN new_qty ELSE 0]
             /\ added' = [added EXCEPT ![u][e] = new_qty]
             /\ last' = Respond("updateItem", u, "OK", <<>>)
     /\ Finish(r)
     /\ UNCHANGED <<stock, price, orders, intents, now, refunds, mail, sizeName>>

\* ---------------------------------------------------------------- removeItem
LineFound_InStock(u, e) == cartItems[u][e] > 0 /\ stock[e] > 0

\* get_object_or_404(CartItem, id=item_id, cart=cart): the row is looked up by
\* its id and cart alone
LineFound(u, e) == cartItems[u][e] > 0

\* CartItemAPIView.delete: the lookup of the line
CartItemDelete_Get(r, US, ES) ==
  /\ FirstIdle(r)
  /\ \E u \in US, e \in ES :
       IF ~LineFound(u, e)
       THEN /\ last' = Respond("removeItem", u, "NotFound", [e |-> e])
            /\ req' = req
       ELSE /\ req' = Start(r, "removeItem", "delete", [user |-> u, e |-> e])
            /\ last' = last
  /\ UNCHANGED <<stock, price, cartItems, orders, intents, lockPS, lockCI, added, now, refunds, mail, sizeName>>

\* item.delete()
CartItemDelete_Delete(r) ==
  LET u == req[r].user
      e == req[r].e
  IN /\ req[r].op = "removeItem" /\ req[r].pc = "delete"
     /\ Free(lockCI[u][e], r)
     /\ cartItems' = [cartItems EXCEPT ![u][e] = 0]
     /\ added' = [added EXCEPT ![u][e] = 0]
     /\ last' = Respond("removeItem", u, "NoContent", [e |-> e])
     /\ Finish(r)
     /\ UNCHANGED <<stock, price, orders, intents, now, refunds, mail, sizeName>>

\* ---------------------------------------------------------------- cart view
\* CartAPIView.get: the cart with its lines, read and serialized
CartView(US) ==
  /\ \E u \in US :
       last' = Respond("cartView", u, "OK",
                       [lines |-> {<<e, cartItems[u][e]>> : e \in CartEntries(u)}])
  /\ UNCHANGED <<stock, price, cartItems, orders, intents, lockPS, lockCI, req, added,
                 now, refunds, mail, sizeName>>

\* ---------------------------------------------------------------- catalog administration
\* the admin site saves a Product with a new price
AdminSetPriceIn(PS) ==
  /\ \E v \in PS \ {price} : price' = v
  /\ UNCHANGED <<stock, cartItems, orders, intents, lockPS, lockCI, req, added, last, now, refunds, mail, sizeName>>

AdminSetPrice == AdminSetPriceIn(Prices)

\* the admin site saves a Size with a new name (Size.name is unique)
AdminSetSizeName ==
  /\ \E e \in Entries, n \in Names :
       /\ \A e2 \in Entries : sizeName[e2] # n
       /\ sizeName' = [sizeName EXCEPT ![e] = n]
  /\ UNCHANGED <<stock, price, cartItems, orders, intents, lockPS, lockCI, req, added, last,
                 now, refunds, mail>>

\* the admin site saves a ProductSize with a new quantity
AdminSetQuantity ==
  /\ \E e \in Entries, v \in Quantities :
       /\ v # stock[e]
       /\ lockPS[e] = NoLock
       /\ stock' = [stock EXCEPT ![e] = v]
  /\ UNCHANGED <<price, cartItems, orders, intents, lockPS, lockCI, req, added, last, now, refunds, mail, sizeName>>

\* ---------------------------------------------------------------- payment processor
\* an intent made outside this system, in another currency
ForeignIntents ==
  {[status |-> "succeeded", amount |-> ToCents(v), amount_received |-> ToCents(v),
    currency |-> "eur", user_id |-> u, cart_sig |-> <<>>, key |-> <<>>,
    att |-> "", lines |-> {}] : v \in Prices, u \in {1}}

FreeSlots == {p \in PI : intents[p] = NoIntent}

\* the customer confirms the payment in the browser
PayIntent ==
  /\ \E p \in PI :
       /\ intents[p].status = "requires_payment_method"
       /\ intents' = [intents EXCEPT ![p].status = "succeeded",
                                     ![p].amount_received = intents[p].amount]
  /\ UNCHANGED <<stock, price, cartItems, orders, lockPS, lockCI, req, added, last, now, refunds, mail, sizeName>>

ForeignIntent ==
  /\ FreeSlots # {}
  /\ \A p \in PI : intents[p] \notin ForeignIntents
  /\ \E f \in ForeignIntents :
       intents' = [intents EXCEPT ![CHOOSE p \in FreeSlots : \A p2 \in FreeSlots : p <= p2] = f]
  /\ UNCHANGED <<stock, price, cartItems, orders, lockPS, lockCI, req, added, last, now, refunds, mail, sizeName>>

\* the PaymentIntent the processor makes for stripe.PaymentIntent.create(amount,
\* currency, metadata, idempotency_key); `lines` keeps the cart content it was made for
MadeIntent(u, att, items) ==
  LET amount_cents == ToCents(CartTotal(items))
      cart_sig == BuildCartSignature(items)
  IN [status |-> "requires_payment_method", amount |-> amount_cents,
      amount_received |-> 0, currency |-> "usd", user_id |-> u,
      cart_sig |-> cart_sig,
      key |-> IdempotencyKey(u, CartIdOf(u), amount_cents, cart_sig, att),
      att |-> att, lines |-> {Part(items[k]) : k \in 1..Len(items)}]

\* ---------------------------------------------------------------- createIntent
InvalidTotal_Negative(total) == total < 0

\* `if total <= 0`
InvalidTotal(total) == total <= 0

\* create_payment_intent: attempt_id and `items.exists()`
CreateIntent_Begin(r, US, AS) ==
  /\ FirstIdle(r)
  /\ \E u \in US, att \in AS \cup {""} :
       IF att = ""
       THEN /\ last' = Respond("createIntent", u, "AttemptRequired", [att |-> att])
            /\ req' = req
       ELSE IF CartEntries(u) = {}
       THEN /\ last' = Respond("createIntent", u, "CartEmpty", [att |-> att])
            /\ req' = req
       ELSE /\ req' = Start(r, "createIntent", "fetch", [user |-> u, att |-> att])
            /\ last' = last
  /\ UNCHANGED <<stock, price, cartItems, orders, intents, lockPS, lockCI, added, now, refunds, mail, sizeName>>

\* the loop over `items`, the idempotency key and stripe.PaymentIntent.create
CreateIntent_Call(r) ==
  LET u == req[r].user
      att == req[r].att
  IN /\ req[r].op = "createIntent" /\ req[r].pc = "fetch"
     /\ \E items \in CartSnapshots(u), outcome \in {"ok", "StripeError", "Exception"} :
          LET total == CartTotal(items)
              amount_cents == ToCents(total)
              cart_sig == BuildCartSignature(items)
              idempotency_key == IdempotencyKey(u, CartIdOf(u), amount_cents, cart_sig, att)
              same == {p \in PI : intents[p] # NoIntent /\ intents[p].key = idempotency_key}
              made == MadeIntent(u, att, items)
              sent == [att |-> att, amount |-> amount_cents, key |-> idempotency_key,
                       lines |-> made.lines, called |-> 1]
          IN IF InvalidTotal(total)
             THEN /\ outcome = "ok"
                  /\ last' = Respond("createIntent", u, "InvalidTotal", [att |-> att])
                  /\ intents' = intents
             ELSE IF outcome = "ok"
             THEN /\ same # {} \/ FreeSlots # {}
                  /\ LET p == IF same # {} THEN CHOOSE x \in same : TRUE
                              ELSE CHOOSE x \in FreeSlots : \A y \in FreeSlots : x <= y
                     IN /\ intents' = IF same # {} THEN intents
                                      ELSE [intents EXCEPT ![p] = made]
                        /\ last' = Respond("createIntent", u, "OK",
                                           sent @@ [pi |-> p])
             ELSE /\ intents' = intents
                  /\ last' = Respond("createIntent", u,
                                     IF outcome = "StripeError"
                                     THEN "PaymentPreparationFailed400"
                                     ELSE "PaymentPreparationFailed500",
                                     [att |-> att, called |-> 1])
     /\ Finish(r)
     /\ UNCHANGED <<stock, price, cartItems, orders, added, now, refunds, mail, sizeName>>

\* ---------------------------------------------------------------- commit
\* `if ps.quantity < ci.quantity` over the rows in order: the first short line, or 0
LineShort_Never(ci) == FALSE

\* `if ps.quantity < ci.quantity`
LineShort(ci) == ci.psq < ci.quantity

RECURSIVE FirstShort(_)
FirstShort(items) ==
  IF items = <<>> THEN 0
  ELSE IF LineShort(Head(items)) THEN Head(items).ps
  ELSE FirstShort(Tail(items))

\* _safe_str(intent.get("currency")).lower()
Lower(c) == IF c = "USD" THEN "usd" ELSE IF c = "EUR" THEN "eur" ELSE c

VerifyIntent_NoAmount(intent, expected_cents, u) ==
  IF intent.status # "succeeded" THEN "PaymentNotCompleted"
  ELSE IF Lower(intent.currency) # "usd" THEN "CurrencyMismatch"
  ELSE IF intent.user_id # u THEN "OwnershipMismatch"
  ELSE "verified"

\* the checks of the retrieved intent, in the order of the code
VerifyIntent(intent, expected_cents, u) ==
  IF intent.status # "succeeded" THEN "PaymentNotCompleted"
  ELSE IF intent.amount_received # expected_cents THEN "AmountMismatch"
  ELSE IF Lower(intent.currency) # "usd" THEN "CurrencyMismatch"
  ELSE IF intent.user_id # u THEN "OwnershipMismatch"
  ELSE "verified"

\* Order.objects.filter(user=request.user, stripe_payment_intent=payment_intent_id)
ExistingOrders(u, p) == {k \in 1..Len(orders) : orders[k].user = u /\ orders[k].pi = p}

UniquePaymentIntent_Off(p) == TRUE

\* stripe_payment_intent is unique=True: the INSERT is refused when a row has the value
UniquePaymentIntent(p) == \A k \in 1..Len(orders) : orders[k].pi # p

\* the transactions, not ended yet, whose inserted order has a unique value of
\* the order that worker r inserts
PendingInserts(r) ==
  {r2 \in Reqs \ {r} :
     /\ req[r2].op = "commit" /\ req[r2].pc \in {"line", "delete"}
     /\ \/ req[r2].pi = req[r].pi
        \/ (req[r].public_id # NoPublicId /\ req[r2].public_id = req[r].public_id)}

\* the INSERT waits for such a transaction to end
InsertPending(r, p) == PendingInserts(r) # {}

UnitPrice_Live(ci) == price

\* Decimal(str(product.price)) of the OrderItem of a line
UnitPrice(ci) == ci.price

\* ps.quantity - ci.quantity, on the ProductSize object read with the cart
NewQuantity(ci) == ci.psq - ci.quantity

Decrement_Live(ci) == [v |-> stock[ci.ps] - ci.quantity, ok |-> TRUE]

\* ps.quantity = ps.quantity - ci.quantity; ps.save(update_fields=["quantity"]):
\* the value of the UPDATE and whether the column's CHECK accepts it
Decrement(ci) == [v |-> NewQuantity(ci), ok |-> PositiveInteger(NewQuantity(ci))]

\* OrderItem.objects.create(order, product, product_size, size=size_name, quantity, unit_price)
OrderItemOf(ci) ==
  [ps |-> ci.ps, quantity |-> ci.quantity, unit_price |-> UnitPrice(ci), size |-> ci.size]

OrderItemsOf_FirstLine(snap) == [k \in 1..1 |-> OrderItemOf(snap[k])]

\* `for ci in cart_items: OrderItem.objects.create(...)`: one item per line
OrderItemsOf(snap) == [k \in 1..Len(snap) |-> OrderItemOf(snap[k])]

NewOrderStatus_Default == "pending"

\* Order.objects.create(..., status="paid", ...)
NewOrderStatus == "paid"

\* transaction.on_commit(...): the callbacks run once the transaction has committed
Notification(kind, order_id) == [kind |-> kind, order |-> order_id]

AfterConfirmationEmail_Raise(sent) == IF sent THEN "Created" ELSE "ServerError"

\* _send_email_after_commit catches and logs every exception of the notifier:
\* the response is 201 whether the email was sent or not
AfterConfirmationEmail(sent) == "Created"

\* CreateOrderAPIView.post: payment_intent_id, the serializer and `cart_items.exists()`
CreateOrder_Begin(r, US) ==
  /\ FirstIdle(r)
  /\ \E u \in US, p \in PI \cup {0}, valid \in BOOLEAN :
       IF p = 0
       THEN /\ valid
            /\ last' = Respond("commit", u, "MissingReference", [pi |-> p])
            /\ req' = req
       ELSE IF ~valid
       THEN /\ last' = Respond("commit", u, "ValidationError", [pi |-> p])
            /\ req' = req
       ELSE IF CartEntries(u) = {}
       THEN /\ last' = Respond("commit", u, "CartEmpty", [pi |-> p])
            /\ req' = req
       ELSE /\ req' = Start(r, "commit", "fetch",
                            [user |-> u, pi |-> p, t0 |-> Len(orders)])
            /\ last' = last
  /\ UNCHANGED <<stock, price, cartItems, orders, intents, lockPS, lockCI, added, now, refunds, mail, sizeName>>

\* `for ci in cart_items`: the rows are read once, with product and size, and kept
CreateOrder_Fetch(r) ==
  LET u == req[r].user
  IN /\ req[r].op = "commit" /\ req[r].pc = "fetch"
     /\ \E items \in CartSnapshots(u) :
          LET total == CartTotal(items)
          IN IF FirstShort(items) # 0
             THEN /\ last' = Respond("commit", u, "InsufficientStock",
                                     [pi |-> req[r].pi])
                  /\ Finish(r)
             ELSE IF total <= 0
             THEN /\ last' = Respond("commit", u, "InvalidTotal", [pi |-> req[r].pi])
                  /\ Finish(r)
             ELSE /\ req' = [req EXCEPT ![r].pc = "retrieve", ![r].snap = items,
                                        ![r].total = total]
                  /\ UNCHANGED <<last, lockPS, lockCI>>
     /\ UNCHANGED <<stock, price, cartItems, orders, intents, added, now, refunds, mail, sizeName>>

\* stripe.PaymentIntent.retrieve and the verification of the intent
CreateOrder_Retrieve(r) ==
  LET u == req[r].user
      p == req[r].pi
      expected_cents == ToCents(req[r].total)
  IN /\ req[r].op = "commit" /\ req[r].pc = "retrieve"
     /\ \E failed \in BOOLEAN :
          IF failed \/ intents[p] = NoIntent
          THEN /\ failed
               /\ last' = Respond("commit", u, "InvalidPaymentReference", [pi |-> p])
               /\ Finish(r)
          ELSE IF VerifyIntent(intents[p], expected_cents, u) # "verified"
          THEN /\ last' = Respond("commit", u,
                                  VerifyIntent(intents[p], expected_cents, u), [pi |-> p])
               /\ Finish(r)
          ELSE /\ req' = [req EXCEPT ![r].pc = "existing"]
               /\ UNCHANGED <<last, lockPS, lockCI>>
     /\ UNCHANGED <<stock, price, cartItems, orders, intents, added, now, refunds, mail, sizeName>>

\* existing = Order.objects.filter(...).first()
CreateOrder_Existing(r) ==
  LET u == req[r].user
      p == req[r].pi
      found == ExistingOrders(u, p)
  IN /\ req[r].op = "commit" /\ req[r].pc = "existing"
     /\ IF found # {}
        THEN /\ last' = Respond("commit", u, "OK",
                                [pi |-> p, order |-> CHOOSE k \in found : \A j \in found : k <= j])
             /\ Finish(r)
        ELSE /\ req' = [req EXCEPT ![r].pc = "public_id"]
             /\ UNCHANGED <<last, lockPS, lockCI>>
     /\ UNCHANGED <<stock, price, cartItems, orders, intents, added, now, refunds, mail, sizeName>>

\* timezone.localdate() of the clock
LocalDate(t) == t \div 24

\* _gen_public_id: f"{prefix}-{date_part}-{suffix}"
GenPublicId(date_part, suffix) == <<"TR", date_part, suffix>>

\* the public ids of the stored orders
PublicIds == {orders[k].public_id : k \in 1..Len(orders)}

\* Order.save: the first candidate, of the draws in order, that no stored order has;
\* none when every draw is taken
RECURSIVE PickPublicId(_, _, _)
PickPublicId(date_part, draws, taken) ==
  IF draws = <<>> THEN NoPublicId
  ELSE IF GenPublicId(date_part, Head(draws)) \notin taken
       THEN GenPublicId(date_part, Head(draws))
  ELSE PickPublicId(date_part, Tail(draws), taken)

\* every outcome of the MaxTries draws of one save
AllDraws == [1..MaxTries -> Suffixes]

\* draws that meet no other order's: the request's payment reference, each time
DrawsApart(r) == {[i \in 1..MaxTries |-> req[r].pi]}

\* with transaction.atomic(): Order.objects.create(...) reaches Order.save, which
\* picks the public id and takes created_at (auto_now_add)
CreateOrder_PublicId(r, DS) ==
  /\ req[r].op = "commit" /\ req[r].pc = "public_id"
  /\ \E draws \in DS :
       req' = [req EXCEPT ![r].pc = "insert", ![r].created_at = now,
                          ![r].public_id = PickPublicId(LocalDate(now), draws, PublicIds)]
  /\ UNCHANGED <<stock, price, cartItems, orders, intents, lockPS, lockCI, added, last,
                 now, refunds, mail, sizeName>>

\* public_id is unique=True; NULLs do not conflict
UniquePublicId(pid) == pid = NoPublicId \/ pid \notin PublicIds

\* the INSERT of Order.save
CreateOrder_Insert(r) ==
  LET u == req[r].user
      p == req[r].pi
  IN /\ req[r].op = "commit" /\ req[r].pc = "insert"
     /\ ~InsertPending(r, p)
     /\ Len(orders) < MaxOrders
     /\ IF ~UniquePaymentIntent(p) \/ ~UniquePublicId(req[r].public_id)
        THEN /\ last' = Respond("commit", u, "IntegrityError", [pi |-> p])
             /\ Finish(r)
        ELSE /\ req' = [req EXCEPT ![r].pc = "line"]
             /\ UNCHANGED <<last, lockPS, lockCI>>
     /\ UNCHANGED <<stock, price, cartItems, orders, intents, added, now, refunds, mail, sizeName>>

\* one turn of the loop: OrderItem.objects.create(...) and ps.save(update_fields=["quantity"])
CreateOrder_Line(r) ==
  LET u == req[r].user
      ci == req[r].snap[Len(req[r].w) + 1]
      v == Decrement(ci).v
  IN /\ req[r].op = "commit" /\ req[r].pc = "line"
     /\ Free(lockPS[ci.ps], r)
     /\ IF ~Decrement(ci).ok
        THEN /\ last' = Respond("commit", u, "IntegrityError", [pi |-> req[r].pi])
             /\ Finish(r)
        ELSE /\ lockPS' = [lockPS EXCEPT ![ci.ps] = r]
             /\ req' = [req EXCEPT ![r].w = Append(@, v),
                                   ![r].pc = IF Len(req[r].w) + 1 = Len(req[r].snap)
                                             THEN "delete" ELSE "line"]
             /\ UNCHANGED <<last, lockCI>>
     /\ UNCHANGED <<stock, price, cartItems, orders, intents, added, now, refunds, mail, sizeName>>

\* cart_items.delete(), the end of the atomic block, the confirmation email of
\* on_commit and the response
CreateOrder_Commit(r) ==
  LET u == req[r].user
      snap == req[r].snap
      order == [user |-> u, pi |-> req[r].pi, status |-> NewOrderStatus,
                total |-> req[r].total, items |-> OrderItemsOf(snap),
                created_at |-> req[r].created_at, public_id |-> req[r].public_id]
  IN /\ req[r].op = "commit" /\ req[r].pc = "delete"
     /\ \A e \in Entries : Free(lockCI[u][e], r)
     /\ orders' = Append(orders, order)
     /\ stock' = [e \in Entries |->
                    IF \E k \in 1..Len(snap) : snap[k].ps = e
                    THEN req[r].w[CHOOSE k \in 1..Len(snap) : snap[k].ps = e]
                    ELSE stock[e]]
     /\ cartItems' = [cartItems EXCEPT ![u] = [e \in Entries |-> 0]]
     /\ added' = [added EXCEPT ![u] = [e \in Entries |-> 0]]
     /\ mail' = mail \cup {Notification("confirmation", Len(orders) + 1)}
     /\ \E sent \in BOOLEAN :
          last' = Respond("commit", u, AfterConfirmationEmail(sent),
                          [pi |-> req[r].pi, order |-> Len(orders) + 1])
     /\ Finish(r)
     /\ UNCHANGED <<price, intents, now, refunds, sizeName>>

\* ---------------------------------------------------------------- cancel
WindowExpired_AtLimit(t, created_at) == t - created_at >= CancelWindowHours

\* `timezone.now() - order.created_at > timedelta(hours=24)`
WindowExpired(t, created_at) == t - created_at > CancelWindowHours

CancelRefusal_NoStatus(order, t) ==
  IF WindowExpired(t, order.created_at) THEN "WindowExpired" ELSE "none"

\* the checks on the order read, in the order of the code
CancelRefusal(order, t) ==
  IF order.status # "paid" THEN "InvalidState"
  ELSE IF WindowExpired(t, order.created_at) THEN "WindowExpired"
  ELSE "none"

\* Order.objects.filter(id=order_id, user=request.user).first()
OwnOrder(u, k) == k <= Len(orders) /\ orders[k].user = u

\* CancelOrderAPIView.post: the order is read and checked
Cancel_Begin(r, US) ==
  /\ FirstIdle(r)
  /\ \E u \in US, k \in 1..MaxOrders :
       IF ~OwnOrder(u, k)
       THEN /\ last' = Respond("cancel", u, "NotFound", [order |-> k])
            /\ req' = req
       ELSE IF CancelRefusal(orders[k], now) # "none"
       THEN /\ last' = Respond("cancel", u, CancelRefusal(orders[k], now), [order |-> k])
            /\ req' = req
       ELSE /\ req' = Start(r, "cancel", "refund", [user |-> u, order |-> k])
            /\ last' = last
  /\ UNCHANGED <<stock, price, cartItems, orders, intents, lockPS, lockCI, added,
                 now, refunds, mail, sizeName>>

RefundStops_Never(succeeded) == FALSE

\* `except Exception: return Response({"detail": "Refund failed"}, ...)`
RefundStops(succeeded) == ~succeeded

\* stripe.Refund.create(payment_intent=order.stripe_payment_intent)
Cancel_Refund(r) ==
  LET u == req[r].user
      k == req[r].order
      p == orders[k].pi
  IN /\ req[r].op = "cancel" /\ req[r].pc = "refund"
     /\ refunds[p].calls < MaxRefundCalls
     /\ \E succeeded \in BOOLEAN :
          /\ refunds' = [refunds EXCEPT ![p] = [calls |-> @.calls + 1,
                                                done |-> @.done \/ succeeded]]
          /\ IF RefundStops(succeeded)
             THEN /\ last' = Respond("cancel", u, "RefundFailed", [order |-> k])
                  /\ Finish(r)
             ELSE /\ req' = [req EXCEPT ![r].pc = "save"]
                  /\ UNCHANGED <<last, lockPS, lockCI>>
     /\ UNCHANGED <<stock, price, cartItems, orders, intents, added, now, mail, sizeName>>

CanceledOrder_Emptied(order) == [order EXCEPT !.status = "canceled", !.items = <<>>]

\* order.status = "canceled"; order.save(update_fields=["status"]): the UPDATE
\* writes the status column of the order's row
CanceledOrder(order) == [order EXCEPT !.status = "canceled"]

\* the save, the end of the atomic block, the emails of on_commit and the response
Cancel_Save(r) ==
  LET u == req[r].user
      k == req[r].order
  IN /\ req[r].op = "cancel" /\ req[r].pc = "save"
     /\ orders' = [orders EXCEPT ![k] = CanceledOrder(@)]
     /\ mail' = mail \cup {Notification("canceled", k), Notification("refund_initiated", k)}
     /\ last' = Respond("cancel", u, "OK", [order |-> k])
     /\ Finish(r)
     /\ UNCHANGED <<stock, price, cartItems, intents, added, now, refunds, sizeName>>

\* ---------------------------------------------------------------- list-my-orders
\* OrderItemReadSerializer: size = CharField(source="product_size.size.name"),
\* quantity and unit_price are the columns of the OrderItem
OrderItemRead(item) ==
  [size |-> sizeName[item.ps], quantity |-> item.quantity, unit_price |-> item.unit_price]

\* OrderReadSerializer: the columns of the Order and its items
OrderRead(k) ==
  [id |-> k, status |-> orders[k].status, total_amount |-> orders[k].total,
   stripe_payment_intent |-> orders[k].pi,
   items |-> [i \in 1..Len(orders[k].items) |-> OrderItemRead(orders[k].items[i])]]

\* MyOrdersAPIView.get: Order.objects.filter(user=request.user), serialized
MyOrders(US) ==
  /\ \E u \in US :
       last' = Respond("myOrders", u, "OK",
                       [listing |-> {OrderRead(k) : k \in {j \in 1..Len(orders) : orders[j].user = u}}])
  /\ UNCHANGED <<stock, price, cartItems, orders, intents, lockPS, lockCI, req, added,
                 now, refunds, mail, sizeName>>

\* ---------------------------------------------------------------- webhook
EventTypes == {"payment_intent.succeeded", "charge.refunded"}

WebhookResponse_SignatureFirst(webhook_secret, signed) ==
  IF ~signed THEN "InvalidWebhook400"
  ELSE IF webhook_secret = "" THEN "SecretNotSet500"
  ELSE "ok"

\* stripe_webhook: the secret, then stripe.Webhook.construct_event
WebhookResponse(webhook_secret, signed) ==
  IF webhook_secret = "" THEN "SecretNotSet500"
  ELSE IF ~signed THEN "InvalidWebhook400"
  ELSE "ok"

\* a delivery of the processor: STRIPE_WEBHOOK_SECRET is the deployment's setting,
\* `signed` whether the payload carries a signature made with it
StripeWebhook ==
  /\ \E webhook_secret \in {"", "whsec"}, signed \in BOOLEAN, event \in EventTypes :
       /\ webhook_secret = "" => ~signed
       /\ last' = Respond("webhook", 0, WebhookResponse(webhook_secret, signed),
                          [secret |-> webhook_secret, signed |-> signed, event |-> event])
  /\ UNCHANGED <<stock, price, cartItems, orders, intents, lockPS, lockCI, req, added,
                 now, refunds, mail, sizeName>>

\* ---------------------------------------------------------------- clock
\* time passes: d hours
Tick(D) ==
  /\ \E d \in D : now + d <= MaxNow /\ now' = now + d
  /\ UNCHANGED <<stock, price, cartItems, orders, intents, lockPS, lockCI, req, added,
                 last, refunds, mail, sizeName>>

\* ---------------------------------------------------------------- deadlocks
\* the workers holding a lock that worker r is waiting for
WaitsFor(r) ==
  LET u == req[r].user
  IN IF req[r].op = "addItem" /\ req[r].pc = "lock_ps" THEN {lockPS[req[r].e]} \ {NoLock, r}
     ELSE IF req[r].op = "addItem" /\ req[r].pc = "lock_item"
       THEN {lockCI[u][req[r].e]} \ {NoLock, r}
     ELSE IF req[r].op = "updateItem" /\ req[r].pc = "lock_ps"
       THEN {lockPS[req[r].e]} \ {NoLock, r}
     ELSE IF req[r].op = "removeItem" /\ req[r].pc = "delete"
       THEN {lockCI[u][req[r].e]} \ {NoLock, r}
     ELSE IF req[r].op = "commit" /\ req[r].pc = "insert"
       THEN PendingInserts(r)
     ELSE IF req[r].op = "commit" /\ req[r].pc = "line"
       THEN {lockPS[req[r].snap[Len(req[r].w) + 1].ps]} \ {NoLock, r}
     ELSE IF req[r].op = "commit" /\ req[r].pc = "delete"
       THEN {lockCI[u][e] : e \in Entries} \ {NoLock, r}
     ELSE {}

RECURSIVE WaitClosure(_, _)
WaitClosure(S, n) ==
  IF n = 0 THEN S ELSE WaitClosure(S \cup UNION {WaitsFor(x) : x \in S}, n - 1)

Deadlocked(r) == r \in WaitClosure(WaitsFor(r), NumReq)

\* PostgreSQL ends a lock cycle by aborting one of its transactions
DeadlockAbort(r) ==
  /\ Deadlocked(r)
  /\ last' = Respond(req[r].op, req[r].user, "DeadlockDetected",
                     [pi |-> req[r].pi])
  /\ Finish(r)
  /\ UNCHANGED <<stock, price, cartItems, orders, intents, added, now, refunds, mail, sizeName>>

\* ---------------------------------------------------------------- specifications
\* the other workers are idle or handle a request of the kinds in S
Among(r, S) == \A r2 \in Reqs \ {r} : req[r2].op \in S \cup {"idle"}

\* The cart of one user, worked on from several tabs at once, while the
\* catalog administration changes the stock.
NextCart ==
  \/ \E r \in Reqs :
       \/ CartItemPost_Begin(r, {1}, Entries)
       \/ CartItemPost_LockPS(r)
       \/ CartItemPost_LockItem(r)
       \/ CartItemPost_Finish(r)
       \/ CartItemPut_LockItem(r, {1}, Entries)
       \/ CartItemPut_Finish(r)
       \/ CartItemDelete_Get(r, {1}, Entries)
       \/ CartItemDelete_Delete(r)
       \/ DeadlockAbort(r)
  \/ AdminSetQuantity

SpecCart == Init /\ [][NextCart]_vars

\* Two customers buy the same entry: they fill their carts and prepare their
\* payments one request at a time, and their commits run concurrently.
NextRace ==
  \/ \E r \in Reqs :
       \/ (Among(r, {}) /\ CartItemPost_Begin(r, Users, {1}))
       \/ CartItemPost_LockPS(r)
       \/ CartItemPost_LockItem(r)
       \/ CartItemPost_Finish(r)
       \/ (Among(r, {}) /\ CreateIntent_Begin(r, Users, {"a1"}))
       \/ CreateIntent_Call(r)
       \/ (Among(r, {"commit"}) /\ CreateOrder_Begin(r, Users))
       \/ CreateOrder_Fetch(r)
       \/ CreateOrder_Retrieve(r)
       \/ CreateOrder_Existing(r)
       \/ CreateOrder_PublicId(r, DrawsApart(r))
       \/ CreateOrder_Insert(r)
       \/ CreateOrder_Line(r)
       \/ CreateOrder_Commit(r)
  \/ PayIntent
  \/ ForeignIntent

SpecRace == Init /\ [][NextRace]_vars

\* The customers have each put one unit of entry 1 in their cart and paid
\* for it, and the administration has set the stock of the entry; from there
\* cart changes, commits and price changes interleave freely.
PaidCart == [e \in Entries |-> IF e = 1 THEN 1 ELSE 0]
PaidItems == [e \in {1} |-> [ps |-> e, quantity |-> PaidCart[e], psq |-> MaxStock,
                                  price |-> CHOOSE v \in Prices : \A w \in Prices : v <= w,
                                  size |-> FirstNames[e]]]
PaidIntent(u) ==
  [MadeIntent(u, "a1", PaidItems) EXCEPT
     !.status = "succeeded", !.amount_received = ToCents(CartTotal(PaidItems))]

InitPaid ==
  /\ \E n \in 1..MaxStock : stock = [e \in Entries |-> IF e = 1 THEN n ELSE MaxStock]
  /\ price = CHOOSE v \in Prices : \A w \in Prices : v <= w
  /\ cartItems = [u \in Users |-> PaidCart]
  /\ orders = <<>>
  /\ intents = [p \in PI |-> IF p \in Users THEN PaidIntent(p) ELSE NoIntent]
  /\ lockPS = [e \in Entries |-> NoLock]
  /\ lockCI = [u \in Users |-> [e \in Entries |-> NoLock]]
  /\ req = [r \in Reqs |-> Idle]
  /\ added = [u \in Users |-> PaidCart]
  /\ last = NoResp
  /\ now = 0
  /\ refunds = [p \in PI |-> NoRefund]
  /\ mail = {}
  /\ sizeName = FirstNames

NextMix ==
  \/ \E r \in Reqs :
       \/ CartItemPost_Begin(r, Users, {1})
       \/ CartItemPost_LockPS(r)
       \/ CartItemPost_LockItem(r)
       \/ CartItemPost_Finish(r)
       \/ CartItemPut_LockItem(r, Users, {1})
       \/ CartItemPut_Finish(r)
       \/ CreateOrder_Begin(r, Users)
       \/ CreateOrder_Fetch(r)
       \/ CreateOrder_Retrieve(r)
       \/ CreateOrder_Existing(r)
       \/ CreateOrder_PublicId(r, DrawsApart(r))
       \/ CreateOrder_Insert(r)
       \/ CreateOrder_Line(r)
       \/ CreateOrder_Commit(r)
       \/ DeadlockAbort(r)
  \/ AdminSetPrice

SpecMix == InitPaid /\ [][NextMix]_vars

\* One customer changes the cart and prepares payments, one request at a time.
NextIntent ==
  \/ \E r \in Reqs :
       \/ (Among(r, {}) /\ CartItemPost_Begin(r, {1}, Entries))
       \/ CartItemPost_LockPS(r)
       \/ CartItemPost_LockItem(r)
       \/ CartItemPost_Finish(r)
       \/ (Among(r, {}) /\ CreateIntent_Begin(r, {1}, Attempts))
       \/ CreateIntent_Call(r)
  \/ AdminSetPrice

SpecIntent == Init /\ [][NextIntent]_vars

\* The customers have bought: each has an order of one unit of entry 1, made at
\* hour 0 and paid with their own payment; they cancel, and time passes.
Buyers == {u \in Users : u <= MaxOrders /\ u <= NumIntents /\ u <= MaxStock}
BoughtOrder(u) ==
  [user |-> u, pi |-> u, status |-> NewOrderStatus, total |-> CartTotal(PaidItems),
   items |-> OrderItemsOf(PaidItems), created_at |-> 0,
   public_id |-> GenPublicId(LocalDate(0), u)]

InitOrders ==
  /\ stock = [e \in Entries |-> IF e = 1 THEN MaxStock - Cardinality(Buyers) ELSE MaxStock]
  /\ price = CHOOSE v \in Prices : \A w \in Prices : v <= w
  /\ cartItems = [u \in Users |-> [e \in Entries |-> 0]]
  /\ orders = [k \in 1..Cardinality(Buyers) |-> BoughtOrder(k)]
  /\ intents = [p \in PI |-> IF p \in Buyers THEN PaidIntent(p) ELSE NoIntent]
  /\ lockPS = [e \in Entries |-> NoLock]
  /\ lockCI = [u \in Users |-> [e \in Entries |-> NoLock]]
  /\ req = [r \in Reqs |-> Idle]
  /\ added = [u \in Users |-> [e \in Entries |-> 0]]
  /\ last = NoResp
  /\ now = 0
  /\ refunds = [p \in PI |-> NoRefund]
  /\ mail = {Notification("confirmation", k) : k \in 1..Cardinality(Buyers)}
  /\ sizeName = FirstNames

NextCancel ==
  \/ \E r \in Reqs :
       \/ Cancel_Begin(r, Users)
       \/ Cancel_Refund(r)
       \/ Cancel_Save(r)
  \/ Tick({12, 13})

SpecCancel == InitOrders /\ [][NextCancel]_vars

\* The processor delivers webhooks while the customers cancel, one request at a time.
NextHook ==
  \/ \E r \in Reqs :
       \/ (Among(r, {}) /\ Cancel_Begin(r, Users))
       \/ Cancel_Refund(r)
       \/ Cancel_Save(r)
  \/ StripeWebhook

SpecHook == InitOrders /\ [][NextHook]_vars

\* The customers, with a paid cart each, commit and cancel; a day passes.
NextOrder ==
  \/ \E r \in Reqs :
       \/ CreateOrder_Begin(r, Users)
       \/ CreateOrder_Fetch(r)
       \/ CreateOrder_Retrieve(r)
       \/ CreateOrder_Existing(r)
       \/ CreateOrder_PublicId(r, DrawsApart(r))
       \/ CreateOrder_Insert(r)
       \/ CreateOrder_Line(r)
       \/ CreateOrder_Commit(r)
       \/ Cancel_Begin(r, Users)
       \/ Cancel_Refund(r)
       \/ Cancel_Save(r)
  \/ Tick({25})

SpecOrder == InitPaid /\ [][NextOrder]_vars

\* The customers commit; the suffixes of the public ids are drawn from a small
\* alphabet, so that draws meet the ids of stored orders.
NextIds ==
  \E r \in Reqs :
    \/ CreateOrder_Begin(r, Users)
    \/ CreateOrder_Fetch(r)
    \/ CreateOrder_Retrieve(r)
    \/ CreateOrder_Existing(r)
    \/ CreateOrder_PublicId(r, AllDraws)
    \/ CreateOrder_Insert(r)
    \/ CreateOrder_Line(r)
    \/ CreateOrder_Commit(r)

SpecIds == InitPaid /\ [][NextIds]_vars

\* Two customers hold one unit of entries 1 and 2 each, paid for, and commit at
\* the same time; the stock of the entries is what the administration left.
PairItems ==
  [k \in 1..2 |-> [ps |-> k, quantity |-> 1, psq |-> MaxStock,
                   price |-> CHOOSE v \in Prices : \A w \in Prices : v <= w,
                   size |-> FirstNames[k]]]
PairCart == [e \in Entries |-> IF e <= 2 THEN 1 ELSE 0]
PairIntent(u) ==
  [MadeIntent(u, "a1", PairItems) EXCEPT
     !.status = "succeeded", !.amount_received = ToCents(CartTotal(PairItems))]

InitPair ==
  /\ stock \in [Entries -> Quantities]
  /\ price = CHOOSE v \in Prices : \A w \in Prices : v <= w
  /\ cartItems = [u \in Users |-> PairCart]
  /\ orders = <<>>
  /\ intents = [p \in PI |-> IF p \in Users THEN PairIntent(p) ELSE NoIntent]
  /\ lockPS = [e \in Entries |-> NoLock]
  /\ lockCI = [u \in Users |-> [e \in Entries |-> NoLock]]
  /\ req = [r \in Reqs |-> Idle]
  /\ added = [u \in Users |-> PairCart]
  /\ last = NoResp
  /\ now = 0
  /\ refunds = [p \in PI |-> NoRefund]
  /\ mail = {}
  /\ sizeName = FirstNames

NextPair ==
  \E r \in Reqs :
    \/ CreateOrder_Begin(r, Users)
    \/ CreateOrder_Fetch(r)
    \/ CreateOrder_Retrieve(r)
    \/ CreateOrder_Existing(r)
    \/ CreateOrder_PublicId(r, DrawsApart(r))
    \/ CreateOrder_Insert(r)
    \/ CreateOrder_Line(r)
    \/ CreateOrder_Commit(r)
    \/ DeadlockAbort(r)

SpecPair == InitPair /\ [][NextPair]_vars

\* One customer who has bought works on the cart from several tabs, looks at
\* the cart and the orders and prepares payments, while the administration
\* changes the stock.
NextShop ==
  \/ \E r \in Reqs :
       \/ CartItemPost_Begin(r, {1}, Entries)
       \/ CartItemPost_LockPS(r)
       \/ CartItemPost_LockItem(r)
       \/ CartItemPost_Finish(r)
       \/ CartItemPut_LockItem(r, {1}, Entries)
       \/ CartItemPut_Finish(r)
       \/ CartItemDelete_Get(r, {1}, Entries)
       \/ CartItemDelete_Delete(r)
       \/ (Among(r, {}) /\ CreateIntent_Begin(r, {1}, {"a1"}))
       \/ CreateIntent_Call(r)
       \/ DeadlockAbort(r)
  \/ CartView({1})
  \/ MyOrders({1})
  \/ AdminSetQuantity

SpecShop == InitOrders /\ [][NextShop]_vars

\* One customer, one request at a time: the cart is filled and changed, payments
\* are prepared and paid, and the cart is committed.
NextSig ==
  \/ \E r \in Reqs :
       \/ (Among(r, {}) /\ CartItemPost_Begin(r, {1}, Entries))
       \/ CartItemPost_LockPS(r)
       \/ CartItemPost_LockItem(r)
       \/ CartItemPost_Finish(r)
       \/ (Among(r, {}) /\ CartItemDelete_Get(r, {1}, Entries))
       \/ CartItemDelete_Delete(r)
       \/ (Among(r, {}) /\ CreateIntent_Begin(r, {1}, {"a1"}))
       \/ CreateIntent_Call(r)
       \/ (Among(r, {}) /\ CreateOrder_Begin(r, {1}))
       \/ CreateOrder_Fetch(r)
       \/ CreateOrder_Retrieve(r)
       \/ CreateOrder_Existing(r)
       \/ CreateOrder_PublicId(r, DrawsApart(r))
       \/ CreateOrder_Insert(r)
       \/ CreateOrder_Line(r)
       \/ CreateOrder_Commit(r)
  \/ PayIntent

SpecSig == Init /\ [][NextSig]_vars

\* The customers have bought; they look at their orders and cancel, one request
\* at a time, while the administration changes the price and renames sizes.
NextCatalog ==
  \/ \E r \in Reqs :
       \/ (Among(r, {}) /\ Cancel_Begin(r, Users))
       \/ Cancel_Refund(r)
       \/ Cancel_Save(r)
  \/ MyOrders(Users)
  \/ AdminSetPrice
  \/ AdminSetSizeName

SpecCatalog == InitOrders /\ [][NextCatalog]_vars

\* One customer changes the cart and prepares payments, one request at a time,
\* while the administration edits the price, which it may set to 0.00.
NextPrepare ==
  \/ \E r \in Reqs :
       \/ (Among(r, {}) /\ CartItemPost_Begin(r, {1}, Entries))
       \/ CartItemPost_LockPS(r)
       \/ CartItemPost_LockItem(r)
       \/ CartItemPost_Finish(r)
       \/ (Among(r, {}) /\ CreateIntent_Begin(r, {1}, {"a1"}))
       \/ CreateIntent_Call(r)
  \/ AdminSetPriceIn(Prices \cup {0})

SpecPrepare == Init /\ [][NextPrepare]_vars

\* every request kind, any interleaving
Next ==
  \/ \E r \in Reqs :
       \/ CartItemPost_Begin(r, Users, Entries)
       \/ CartItemPost_LockPS(r)
       \/ CartItemPost_LockItem(r)
       \/ CartItemPost_Finish(r)
       \/ CartItemPut_LockItem(r, Users, Entries)
       \/ CartItemPut_Finish(r)
       \/ CartItemDelete_Get(r, Users, Entries)
       \/ CartItemDelete_Delete(r)
       \/ CreateIntent_Begin(r, Users, Attempts)
       \/ CreateIntent_Call(r)
       \/ CreateOrder_Begin(r, Users)
       \/ CreateOrder_Fetch(r)
       \/ CreateOrder_Retrieve(r)
       \/ CreateOrder_Existing(r)
       \/ CreateOrder_PublicId(r, AllDraws)
       \/ CreateOrder_Insert(r)
       \/ CreateOrder_Line(r)
       \/ CreateOrder_Commit(r)
       \/ Cancel_Begin(r, Users)
       \/ Cancel_Refund(r)
       \/ Cancel_Save(r)
       \/ DeadlockAbort(r)
  \/ PayIntent
  \/ ForeignIntent
  \/ AdminSetPrice
  \/ AdminSetQuantity
  \/ AdminSetSizeName
  \/ CartView(Users)
  \/ MyOrders(Users)
  \/ StripeWebhook
  \/ Tick({1})

Spec == Init /\ [][Next]_vars

\* ---------------------------------------------------------------- properties
\* the units of entry e in the OrderItems of all orders
RECURSIVE ItemsQty(_, _)
ItemsQty(items, e) ==
  IF items = <<>> THEN 0
  ELSE (IF Head(items).ps = e THEN Head(items).quantity ELSE 0) + ItemsQty(Tail(items), e)

RECURSIVE SoldIn(_, _)
SoldIn(os, e) == IF os = <<>> THEN 0 ELSE ItemsQty(Head(os).items, e) + SoldIn(Tail(os), e)

Sold(e) == SoldIn(orders, e)

ItemsTotal(items) ==
  SumSeq([k \in 1..Len(items) |-> items[k].unit_price * items[k].quantity])

\* worker r sends the response of a request of kind op in this step
Responds(r, op) == req[r].op = op /\ req'[r].op = "idle"

\* C1: after a commit of user u with payment reference p has created order O,
\* the next response, when it answers a well-formed commit of u with p that
\* began after O was stored, returns order O again and leaves every inventory
\* quantity as it was.
C1_ResubmitReturnsSameOrder ==
  [][(/\ last.op = "commit" /\ last.resp = "Created"
      /\ last' # last
      /\ last'.op = "commit" /\ last'.user = last.user /\ last'.pi = last.pi
      /\ last'.resp # "ValidationError"
      /\ \A r \in Reqs : Responds(r, "commit") => req[r].t0 >= last.order)
     => (/\ last'.resp = "OK"
         /\ last'.order = last.order
         /\ stock' = stock)]_vars

\* C2: no two orders carry the same payment reference.
C2_OneOrderPerPaymentReference ==
  \A i, j \in 1..Len(orders) : i # j => orders[i].pi # orders[j].pi

\* two commits with the same payment reference raced past the existing-order
\* lookup: one order is stored and the other INSERT was refused
C2_Witness ==
  /\ Len(orders) >= 1
  /\ last.op = "commit" /\ last.resp = "IntegrityError"
  /\ \E k \in 1..Len(orders) : orders[k].pi = last.pi

\* C3: with commits as the only inventory writers, the quantity of every entry
\* is its initial quantity minus the quantities of the OrderItems made for it.
C3_StockIsInitialMinusSold ==
  \A e \in Entries : stock[e] = MaxStock - Sold(e)

\* C4: no inventory quantity is ever negative.
C4_StockNeverNegative == \A e \in Entries : stock[e] >= 0

\* the last unit was sold by commits that ran while others were in flight
C4_Witness ==
  /\ stock[1] = 0
  /\ Len(orders) >= 1
  /\ \E r \in Reqs : req[r].op \in {"commit", "addItem", "updateItem"}

\* C5: the quantity sold of an entry, over all orders, never exceeds the stock
\* the entry had.
C5_NeverOversold == \A e \in Entries : Sold(e) <= MaxStock

VerificationErrors ==
  {"PaymentNotCompleted", "AmountMismatch", "CurrencyMismatch", "OwnershipMismatch"}

\* the condition whose failure an error of the verification stands for
Passes(check, intent, expected_cents, u) ==
  IF check = "PaymentNotCompleted" THEN intent.status = "succeeded"
  ELSE IF check = "AmountMismatch" THEN intent.amount_received = expected_cents
  ELSE IF check = "CurrencyMismatch" THEN intent.currency = "usd"
  ELSE intent.user_id = u

\* C6: a commit that creates an order presented a payment with status
\* succeeded, amount_received equal to the cart total in cents, currency usd
\* and the caller as metadata user; a commit whose retrieved payment fails one
\* of these answers with the error of a failed condition and changes no order,
\* inventory quantity or cart line.
C6_VerificationGuardsCommit ==
  [][\A r \in Reqs : Responds(r, "commit") =>
       LET u == req[r].user
           intent == intents[req[r].pi]
           expected_cents == ToCents(req[r].total)
           failing == {c \in VerificationErrors : ~Passes(c, intent, expected_cents, u)}
       IN /\ last'.resp = "Created" => intent # NoIntent /\ failing = {}
          /\ last'.resp \in VerificationErrors =>
               /\ last'.resp \in failing
               /\ UNCHANGED <<orders, stock, cartItems>>
          /\ (req[r].pc = "retrieve" /\ last'.resp # "InvalidPaymentReference"
               /\ failing # {}) =>
               /\ last'.resp \in failing
               /\ UNCHANGED <<orders, stock, cartItems>>]_vars

\* the amount received differs from the cart total: AmountMismatch, and the
\* inventory, the orders and the cart are as before
C6_Witness ==
  /\ last.op = "commit" /\ last.resp = "AmountMismatch"
  /\ orders = <<>>
  /\ stock = [e \in Entries |-> MaxStock]
  /\ cartItems[last.user][1] > 0
  /\ intents[last.pi].status = "succeeded"

\* C7: for every order, the sum of unit_price * quantity over its items is its
\* total_amount, and total_amount in cents is the amount_received of its payment.
C7_OrderTotalsAgree ==
  \A k \in 1..Len(orders) :
    /\ ItemsTotal(orders[k].items) = orders[k].total
    /\ ToCents(orders[k].total) = intents[orders[k].pi].amount_received

\* an order stands while the catalog price has changed since
C7_Witness ==
  \E k \in 1..Len(orders) : orders[k].items[1].unit_price # price

\* C8: a create-intent call and an earlier one by the same user with the same
\* attempt id, cart lines and amount sent the same idempotency key; with
\* different cart lines they sent different keys.
C8_IdempotencyKey ==
  (last.op = "createIntent" /\ last.resp = "OK") =>
    \A p \in PI :
      (intents[p] # NoIntent /\ intents[p].key # <<>> /\ intents[p].user_id = last.user) =>
        /\ (intents[p].att = last.att /\ intents[p].lines = last.lines
             /\ intents[p].amount = last.amount) => intents[p].key = last.key
        /\ intents[p].lines # last.lines => intents[p].key # last.key

\* two calls with the same attempt id around a change of a line's quantity
C8_Witness ==
  /\ last.op = "createIntent" /\ last.resp = "OK"
  /\ \E p \in PI \ {last.pi} :
       /\ intents[p] # NoIntent
       /\ intents[p].user_id = last.user /\ intents[p].att = last.att
       /\ \E a \in intents[p].lines, b \in last.lines : a[1] = b[1] /\ a[2] # b[2]
       /\ Cardinality(last.lines) > 1

\* C9: every cart line holds the sum of the quantities of the addItem calls
\* that succeeded on it (counted from the last update or removal of the line);
\* the unique constraint leaves at most one row for a cart and an entry.
C9_LineIsSumOfAdds ==
  \A u \in Users, e \in Entries : cartItems[u][e] = added[u][e]

\* two tabs add to the same line: one has read the line under the lock of the
\* entry, the other waits for that lock
C9_Witness ==
  \E r1, r2 \in Reqs :
    /\ r1 # r2
    /\ req[r1].op = "addItem" /\ req[r1].pc = "check" /\ req[r1].cur >= 1
    /\ req[r2].op = "addItem" /\ req[r2].pc = "lock_ps"
    /\ req[r2].user = req[r1].user /\ req[r2].e = req[r1].e

Begins(r, op) == req[r].op = "idle" /\ req'[r].op = op

\* a request of kind op is answered in this step without a worker taking it up
AnsweredAtOnce(op) == last'.op = op /\ last' # last /\ req' = req

\* C11: a cancel of a paid order of the caller goes on to the refund only when
\* at most 24 hours have passed since the order was created (24 hours exactly
\* are allowed); when more have passed it answers WindowExpired, no refund call
\* is made and the order stays as it is.
C11_CancelWindow ==
  [][/\ \A r \in Reqs : Begins(r, "cancel") =>
          now - orders[req'[r].order].created_at <= CancelWindowHours
     /\ (/\ AnsweredAtOnce("cancel")
         /\ OwnOrder(last'.user, last'.order)
         /\ orders[last'.order].status = "paid") =>
          /\ now - orders[last'.order].created_at > CancelWindowHours
          /\ last'.resp = "WindowExpired"
          /\ UNCHANGED <<orders, refunds, mail>>]_vars

\* cancel at hour 25 of an order made at hour 0: WindowExpired, no refund call,
\* the order still paid
C11_Witness ==
  /\ last.op = "cancel" /\ last.resp = "WindowExpired"
  /\ now = CancelWindowHours + 1
  /\ orders[last.order].created_at = 0
  /\ orders[last.order].status = "paid"
  /\ refunds[orders[last.order].pi].calls = 0

\* C12: a cancel of an order of the caller whose status is not paid answers
\* InvalidState, makes no refund call and changes no order; only an order read
\* as paid goes on to the refund.
C12_CancelNeedsPaid ==
  [][/\ \A r \in Reqs : Begins(r, "cancel") => orders[req'[r].order].status = "paid"
     /\ (/\ AnsweredAtOnce("cancel")
         /\ OwnOrder(last'.user, last'.order)
         /\ orders[last'.order].status # "paid") =>
          /\ last'.resp = "InvalidState"
          /\ UNCHANGED <<orders, refunds, mail>>]_vars

\* the second cancel of an order canceled with one refund call: InvalidState
C12_Witness ==
  /\ last.op = "cancel" /\ last.resp = "InvalidState"
  /\ orders[last.order].status = "canceled"
  /\ refunds[orders[last.order].pi] = [calls |-> 1, done |-> TRUE]

\* C13: a cancel whose refund call fails answers RefundFailed and changes no
\* order and triggers no notification; an order becomes canceled only when a
\* refund call for its own payment reference has succeeded.
C13_RefundBeforeCanceled ==
  [][/\ \A r \in Reqs :
          (Responds(r, "cancel") /\ req[r].pc = "refund") =>
            /\ last'.resp = "RefundFailed"
            /\ refunds'[orders[req[r].order].pi].calls
                 = refunds[orders[req[r].order].pi].calls + 1
            /\ UNCHANGED <<orders, mail>>
     /\ \A k \in 1..Len(orders) :
          (orders[k].status # "canceled" /\ orders'[k].status = "canceled") =>
            refunds[orders[k].pi].done]_vars

\* the refund call of a cancel failed: RefundFailed, the order is paid, no
\* email about a cancellation was triggered
C13_Witness ==
  /\ last.op = "cancel" /\ last.resp = "RefundFailed"
  /\ orders[last.order].status = "paid"
  /\ refunds[orders[last.order].pi] = [calls |-> 1, done |-> FALSE]
  /\ Notification("canceled", last.order) \notin mail
  /\ Notification("refund_initiated", last.order) \notin mail

\* C14: every order enters the table through commit with status paid; the only
\* change of a status is from paid to canceled, made by cancel; no order is pending.
C14_OrderStatusMachine ==
  [][/\ Len(orders') >= Len(orders)
     /\ \A k \in 1..Len(orders) : orders[k].status \in {"paid", "canceled"}
     /\ \A k \in 1..Len(orders') :
          IF k <= Len(orders)
          THEN \/ orders'[k].status = orders[k].status
               \/ /\ orders[k].status = "paid" /\ orders'[k].status = "canceled"
                  /\ \E r \in Reqs : Responds(r, "cancel") /\ req[r].order = k
          ELSE /\ orders'[k].status = "paid"
               /\ \E r \in Reqs : Responds(r, "commit")]_vars

\* of two orders made by commits, one has been canceled and the other is paid
C14_Witness ==
  /\ Len(orders) = 2
  /\ orders[1].status = "canceled"
  /\ orders[2].status = "paid"
  /\ last.op = "cancel" /\ last.resp = "OK"

\* C15: a step of a commit either stores one order with one OrderItem for each
\* line of the cart it read, writes the quantity of each of these entries and
\* removes the cart lines of the user, all at once, or changes no order, no
\* inventory quantity and no cart line.
C15_CommitAllOrNothing ==
  [][IF orders' # orders
     THEN \E r \in Reqs :
            LET snap == req[r].snap
                order == orders'[Len(orders')]
            IN /\ Responds(r, "commit") /\ last'.resp = "Created"
               /\ orders' = Append(orders, order)
               /\ order.user = req[r].user /\ order.pi = req[r].pi
               /\ Len(order.items) = Len(snap)
               /\ \A k \in 1..Len(snap) :
                    /\ order.items[k].ps = snap[k].ps
                    /\ order.items[k].quantity = snap[k].quantity
                    /\ stock'[snap[k].ps] = snap[k].psq - snap[k].quantity
               /\ \A e \in Entries :
                    (\A k \in 1..Len(snap) : snap[k].ps # e) => stock'[e] = stock[e]
               /\ \A k \in 1..Len(snap) : cartItems'[req[r].user][snap[k].ps] = 0
               /\ \A u \in Users \ {req[r].user} : cartItems'[u] = cartItems[u]
     ELSE UNCHANGED <<stock, cartItems>>]_vars

\* a commit was aborted inside its transaction, after its order and an item
\* were written there: no order is stored and the carts are whole
C15_Witness ==
  /\ last.op = "commit" /\ last.resp = "DeadlockDetected"
  /\ orders = <<>>
  /\ \A u \in Users : cartItems[u] = PairCart

\* C16: a confirmation is triggered only for a stored order, in the step that
\* commits it; that step answers Created whether the notifier fails or not; a
\* commit that stores no order triggers nothing.
C16_ConfirmationAfterCommit ==
  [][/\ \A m \in mail' : m.kind = "confirmation" => m.order \in 1..Len(orders')
     /\ \A r \in Reqs : Responds(r, "commit") =>
          IF Len(orders') > Len(orders)
          THEN /\ last'.resp = "Created"
               /\ mail' = mail \cup {Notification("confirmation", Len(orders'))}
               /\ Notification("confirmation", Len(orders')) \notin mail
          ELSE mail' = mail]_vars

\* a commit failed after another stored its order: one order, one confirmation
C16_Witness ==
  /\ last.op = "commit" /\ last.resp = "InsufficientStock"
  /\ Len(orders) = 1
  /\ mail = {Notification("confirmation", 1)}

\* C17: no commit is ever part of a cycle of transactions waiting for each
\* other's row locks.
C17_CommitsNeverDeadlock ==
  \A r \in Reqs : req[r].op = "commit" => ~Deadlocked(r)

\* C18: every stored order has a public id, and no two orders have the same.
C18_PublicIdsUniqueNonEmpty ==
  \A i, j \in 1..Len(orders) :
    /\ orders[i].public_id # NoPublicId
    /\ i # j => orders[i].public_id # orders[j].public_id

\* C19: the webhook answers 500 when no secret is configured, else 400 when the
\* signature is not valid, else ok; it changes no order, inventory quantity or
\* cart line, whatever the event.
C19_WebhookOnlyAcknowledges ==
  [][(last'.op = "webhook" /\ last' # last) =>
       /\ last'.resp = "SecretNotSet500" <=> last'.secret = ""
       /\ last'.resp = "InvalidWebhook400" <=> (last'.secret # "" /\ ~last'.signed)
       /\ last'.resp = "ok" <=> (last'.secret # "" /\ last'.signed)
       /\ UNCHANGED <<orders, stock, cartItems, refunds, mail>>]_vars

\* a signed event about a refund was acknowledged while an order is canceled
C19_Witness ==
  /\ last.op = "webhook" /\ last.resp = "ok" /\ last.event = "charge.refunded"
  /\ \E k \in 1..Len(orders) : orders[k].status = "canceled"

CartRequests == {"addItem", "updateItem", "removeItem", "createIntent"}
Views == {"cartView", "myOrders"}

\* C21: no step of addItem, updateItem, removeItem, createIntent, the cart view
\* or list-my-orders changes an inventory quantity, whatever its outcome; a
\* removeItem is refused only when the caller's cart has no such line, and one
\* that found the line ends with the line gone, whatever the entry's stock.
C21_CartPathsKeepStock ==
  [][/\ (\/ \E r \in Reqs : /\ req'[r] # req[r]
                            /\ (req[r].op \in CartRequests \/ req'[r].op \in CartRequests)
         \/ (last' # last /\ last'.op \in CartRequests \cup Views)) => stock' = stock
     /\ AnsweredAtOnce("removeItem") =>
          /\ last'.resp = "NotFound"
          /\ cartItems[last'.user][last'.e] = 0
     /\ \A r \in Reqs : Responds(r, "removeItem") =>
          /\ last'.resp = "NoContent"
          /\ cartItems'[req[r].user][req[r].e] = 0]_vars

\* a line of an entry that is out of stock was removed
C21_Witness ==
  /\ last.op = "removeItem" /\ last.resp = "NoContent"
  /\ stock[last.e] = 0
  /\ cartItems[last.user][last.e] = 0
  /\ \A r \in Reqs : req[r].op = "idle"

\* a line of the cart of user u asks for more than its entry holds
ShortLines(u) == {e \in Entries : cartItems[u][e] > stock[e]}

\* C22: a commit that reads a cart with a line above the quantity of its
\* entry answers InsufficientStock at that step, before the step that
\* retrieves the payment, and changes no order, inventory quantity, cart line
\* or payment; no other step of a commit answers InsufficientStock.
C22_CommitRefusedWhenShort ==
  [][\A r \in Reqs :
       /\ (req[r].op = "commit" /\ req[r].pc = "fetch" /\ req'[r] # req[r]) =>
            IF ShortLines(req[r].user) # {}
            THEN /\ Responds(r, "commit") /\ last'.resp = "InsufficientStock"
                 /\ UNCHANGED <<orders, stock, cartItems, intents>>
            ELSE req'[r].pc = "retrieve" \/ last'.resp # "InsufficientStock"
       /\ (Responds(r, "commit") /\ last'.resp = "InsufficientStock") =>
            req[r].pc = "fetch"]_vars

\* the commit of another customer took the last unit of an entry: the commit
\* is refused, the cart is whole and one order is stored
C22_Witness ==
  /\ last.op = "commit" /\ last.resp = "InsufficientStock"
  /\ Len(orders) = 1 /\ orders[1].user # last.user
  /\ cartItems[last.user] = PairCart
  /\ ShortLines(last.user) # {}

\* C23: a commit creates an order only when the signature of the cart it read
\* is the signature in the metadata of the payment it presents.
C23_CommitNeedsSameSignature ==
  [][\A r \in Reqs : (Responds(r, "commit") /\ last'.resp = "Created") =>
       BuildCartSignature(req[r].snap) = intents[req[r].pi].cart_sig]_vars

\* C24: every order returned by list-my-orders shows the total amount of the
\* stored order and, for each item, the size label, quantity and unit price
\* that the OrderItem was given at the purchase.
C24_ListedOrdersKeepPurchase ==
  last.op = "myOrders" =>
    \A o \in last.listing :
      /\ o.total_amount = orders[o.id].total
      /\ \A i \in 1..Len(o.items) :
           /\ o.items[i].size = orders[o.id].items[i].size
           /\ o.items[i].quantity = orders[o.id].items[i].quantity
           /\ o.items[i].unit_price = orders[o.id].items[i].unit_price

\* the sum of live price * quantity over the lines of the cart of user u
LiveTotal(u) == SumSeq([e \in 1..NumEntries |-> price * cartItems[u][e]])

\* the payment intents that a step makes or changes
Touched == {p \in PI : intents'[p] # intents[p]}

\* C25: a createIntent with an attempt id answers CartEmpty when the cart has
\* no line and InvalidTotal when the live total is <= 0, both without a call
\* to the processor and with the intents as they were; otherwise it makes one
\* create call, with the live total in cents as amount, and returns the id of
\* the intent the processor holds for that call.
C25_CreateIntentOutcomes ==
  [][/\ (AnsweredAtOnce("createIntent") /\ last'.att # "") =>
          /\ CartEntries(last'.user) = {}
          /\ last'.resp = "CartEmpty" /\ last'.called = 0
          /\ intents' = intents
     /\ \A r \in Reqs : Begins(r, "createIntent") => CartEntries(req'[r].user) # {}
     /\ \A r \in Reqs : Responds(r, "createIntent") =>
          IF LiveTotal(req[r].user) <= 0
          THEN /\ last'.resp = "InvalidTotal" /\ last'.called = 0
               /\ intents' = intents
          ELSE /\ last'.resp # "InvalidTotal" /\ last'.called = 1
               /\ Cardinality(Touched) <= 1
               /\ last'.resp = "OK" =>
                    /\ last'.amount = ToCents(LiveTotal(req[r].user))
                    /\ intents'[last'.pi].amount = last'.amount
                    /\ intents'[last'.pi].key = last'.key
                    /\ Touched \subseteq {last'.pi}]_vars

\* the price is 0.00 and the cart has a line: InvalidTotal, and no intent was made
C25_Witness ==
  /\ last.op = "createIntent" /\ last.resp = "InvalidTotal"
  /\ price = 0 /\ CartEntries(last.user) # {}
  /\ \A p \in PI : intents[p] = NoIntent

\* C26: a createIntent whose call to the processor fails answers
\* PaymentPreparationFailed with code 500, and changes no order, cart line or
\* inventory quantity.
C26_ProcessorFailureIs500 ==
  [][\A r \in Reqs :
       (Responds(r, "createIntent") /\ last'.called = 1 /\ last'.resp # "OK") =>
         /\ last'.resp = "PaymentPreparationFailed500"
         /\ UNCHANGED <<orders, cartItems, stock>>]_vars

\* C27: no refund call is made for a payment reference whose refund has
\* already succeeded, so that an order is refunded once.
C27_OneRefundPerOrder ==
  [][\A p \in PI : refunds'[p].calls > refunds[p].calls => ~refunds[p].done]_vars

\* C28: no addItem or updateItem is ever part of a cycle of transactions
\* waiting for each other's row locks.
C28_CartRequestsNeverDeadlock ==
  \A r \in Reqs : req[r].op \in {"addItem", "updateItem"} => ~Deadlocked(r)

\* C29: every cart line that a successful commit removes is an item of the
\* order it creates, with the same inventory entry and the same quantity.
C29_RemovedLinesWerePurchased ==
  [][\A r \in Reqs : (Responds(r, "commit") /\ last'.resp = "Created") =>
       LET u == req[r].user
           items == orders'[Len(orders')].items
       IN \A e \in Entries :
            (cartItems[u][e] > 0 /\ cartItems'[u][e] = 0) =>
              \E i \in 1..Len(items) :
                items[i].ps = e /\ items[i].quantity = cartItems[u][e]]_vars

\* C30: no step of a cancel changes an inventory quantity or a cart line; the
\* step that ends a successful cancel changes the status of its order to
\* canceled and nothing else of any order.
C30_CancelChangesStatusOnly ==
  [][\A r \in Reqs :
       /\ (req[r].op = "cancel" /\ req'[r] # req[r]) => UNCHANGED <<stock, cartItems>>
       /\ (Responds(r, "cancel") /\ last'.resp = "OK") =>
            LET k == req[r].order
            IN /\ Len(orders') = Len(orders)
               /\ \A j \in 1..Len(orders) :
                    \A f \in DOMAIN orders[j] :
                      orders'[j][f] = IF j = k /\ f = "status" THEN "canceled"
                                      ELSE orders[j][f]]_vars

\* an order was canceled: its unit is still out of the stock, and its item,
\* total and payment reference are those of the purchase
C30_Witness ==
  /\ last.op = "cancel" /\ last.resp = "OK"
  /\ orders[last.order] = [BoughtOrder(last.order) EXCEPT !.status = "canceled"]
  /\ stock[1] = MaxStock - Cardinality(Buyers)
  /\ \A u \in Users : cartItems[u] = [e \in Entries |-> 0]
====
